---------------------------- MODULE Spec2Model ----------------------------
(***************************************************************************)
(* Model of the photobook PDF generators:                                  *)
(*   src/pdf_generator/generate_pdf.py    interior pages                   *)
(*   src/pdf_generator/generate_cover.py  cover spread                     *)
(*                                                                         *)
(* Python floats are modelled as exact rationals [num, den] (den > 0,      *)
(* lowest terms), so every equality below is an equality of real numbers;  *)
(* rounding of IEEE doubles is outside this model.                         *)
(***************************************************************************)
EXTENDS Integers, Sequences, FiniteSets, TLC

VARIABLES
    \* harness around the pure function calculate_crop (both copies)
    crop_pc, crop_in, crop_out,
    \* ... a second call with another zoom, and crop_and_resize_image applied
    \* to the crop
    crop_other, crop_img,
    \* harness around calculate_paper_pages / get_spine_width
    spine_pc, spine_in, spine_out,
    \* generate_pdf: its argument, its position, its locals and its outputs
    album, pdf_pc, interior_pages, page_idx, row_idx, col_idx, cell_idx,
    current_x, current_y_from_top, canvas, printed, low_dpi_warnings,
    \* image buffers that are open, and render_cell's locals img, processed_img
    \* and srgb_img while it is between its draw command and its return
    open_images, cell_images,
    \* result of get_first_cell_with_image applied to a page of the album
    first_cell,
    \* generate_cover: its argument, its position, its locals and its outputs
    cover_pc, cover_album, cover_locals, cover_canvas, cover_printed, exit_code,
    \* image buffers that generate_cover has open
    cover_open_images

cropVars  == <<crop_pc, crop_in, crop_out, crop_other, crop_img>>
spineVars == <<spine_pc, spine_in, spine_out>>
walkVars  == <<page_idx, row_idx, col_idx, cell_idx, current_x, current_y_from_top>>
outVars   == <<canvas, printed, low_dpi_warnings>>
imgVars   == <<open_images, cell_images>>
pdfVars   == <<album, pdf_pc, interior_pages, walkVars, outVars, imgVars, first_cell>>
coverVars == <<cover_pc, cover_album, cover_locals, cover_canvas, cover_printed, exit_code,
               cover_open_images>>
vars == <<cropVars, spineVars, pdfVars, coverVars>>

----------------------------------------------------------------------------
(* Exact rational arithmetic standing in for Python float arithmetic.      *)

Abs(i) == IF i < 0 THEN -i ELSE i

RECURSIVE GCD(_, _)
GCD(a, b) == IF b = 0 THEN a ELSE GCD(b, a % b)

\* the rational n/d (d # 0) in lowest terms with a positive denominator
Rat(n, d) ==
    LET s == IF d < 0 THEN -1 ELSE 1
        g == GCD(Abs(n), Abs(d))
    IN  [num |-> (s * n) \div g, den |-> (s * d) \div g]

R(i) == [num |-> i, den |-> 1]

RAdd(a, b) ==
    LET g == GCD(a.den, b.den)
    IN  Rat(a.num * (b.den \div g) + b.num * (a.den \div g), (a.den \div g) * b.den)

RNeg(a) == [num |-> -a.num, den |-> a.den]

RSub(a, b) == RAdd(a, RNeg(b))

RMul(a, b) ==
    LET g1 == GCD(Abs(a.num), b.den)
        g2 == GCD(Abs(b.num), a.den)
    IN  Rat((a.num \div g1) * (b.num \div g2), (a.den \div g2) * (b.den \div g1))

\* a / b, b # 0
RDiv(a, b) == RMul(a, Rat(b.den, b.num))

RLt(a, b) ==
    LET g == GCD(a.den, b.den)
    IN  a.num * (b.den \div g) < b.num * (a.den \div g)

RLe(a, b) == ~RLt(b, a)

RMax(a, b) == IF RLt(a, b) THEN b ELSE a

RMin(a, b) == IF RLt(b, a) THEN b ELSE a

----------------------------------------------------------------------------
(* Bounds of the checked input spaces.                                     *)

MaxImg     == 3    \* image sides range over 1..MaxImg pixels
MaxCell    == 3    \* cell sides range over 1..MaxCell
FocalDen   == 2    \* focal coordinates k/FocalDen, k in 0..FocalDen
ZoomDen    == 2    \* zoom values k/ZoomDen
MaxZoomNum == 6    \* ... for k in 1..MaxZoomNum

----------------------------------------------------------------------------
(* Constants, generate_pdf.py                                              *)

UI_PAGE_WIDTH  == 730
UI_PAGE_HEIGHT == 598
UI_GUTTER      == 7

PRINT_PAGE_WIDTH  == 356
PRINT_PAGE_HEIGHT == 296
PRINT_MARGIN      == 2

PRINT_AREA_WIDTH  == PRINT_PAGE_WIDTH - (2 * PRINT_MARGIN)
PRINT_AREA_HEIGHT == PRINT_PAGE_HEIGHT - (2 * PRINT_MARGIN)

\* mm per UI pixel
SCALE_FACTOR == Rat(PRINT_AREA_WIDTH, UI_PAGE_WIDTH)

PRINT_GUTTER == RMul(R(UI_GUTTER), SCALE_FACTOR)

MIN_DPI_WARNING == 200

\* reportlab.lib.units.mm: points per millimetre, 72 / 25.4
mm == Rat(720, 254)

----------------------------------------------------------------------------
(* Cropping logic, generate_pdf.py                                         *)

\* variant of clamp that applies only the upper limit
clamp_hi_only(value, min_val, max_val) == RMin(max_val, value)

clamp(value, min_val, max_val) == RMin(max_val, RMax(min_val, value))

\* variant of calculate_crop that applies the zoom to the width only
calculate_crop_zoom_on_width(img_w, img_h, cell_w, cell_h, focal_x, focal_y, zoom) ==
    LET img_ar  == RDiv(img_w, img_h)
        cell_ar == RDiv(cell_w, cell_h)
        wider   == RLt(cell_ar, img_ar)
        base_crop_h == IF wider THEN img_h ELSE RDiv(img_w, cell_ar)
        base_crop_w == IF wider THEN RMul(img_h, cell_ar) ELSE img_w
        final_crop_w == RDiv(base_crop_w, zoom)
        final_crop_h == base_crop_h
        focal_px_x == RMul(focal_x, img_w)
        focal_px_y == RMul(focal_y, img_h)
        crop_x == RSub(focal_px_x, RDiv(final_crop_w, R(2)))
        crop_y == RSub(focal_px_y, RDiv(final_crop_h, R(2)))
    IN  [x |-> clamp(crop_x, R(0), RSub(img_w, final_crop_w)),
         y |-> clamp(crop_y, R(0), RSub(img_h, final_crop_h)),
         w |-> final_crop_w,
         h |-> final_crop_h]

\* variant of calculate_crop with the two constraint cases exchanged
calculate_crop_swapped_constraint(img_w, img_h, cell_w, cell_h, focal_x, focal_y, zoom) ==
    LET img_ar  == RDiv(img_w, img_h)
        cell_ar == RDiv(cell_w, cell_h)
        wider   == RLt(cell_ar, img_ar)
        base_crop_h == IF wider THEN RDiv(img_w, cell_ar) ELSE img_h
        base_crop_w == IF wider THEN img_w ELSE RMul(img_h, cell_ar)
        final_crop_w == RDiv(base_crop_w, zoom)
        final_crop_h == RDiv(base_crop_h, zoom)
        focal_px_x == RMul(focal_x, img_w)
        focal_px_y == RMul(focal_y, img_h)
        crop_x == RSub(focal_px_x, RDiv(final_crop_w, R(2)))
        crop_y == RSub(focal_px_y, RDiv(final_crop_h, R(2)))
    IN  [x |-> clamp(crop_x, R(0), RSub(img_w, final_crop_w)),
         y |-> clamp(crop_y, R(0), RSub(img_h, final_crop_h)),
         w |-> final_crop_w,
         h |-> final_crop_h]

calculate_crop(img_w, img_h, cell_w, cell_h, focal_x, focal_y, zoom) ==
    LET img_ar  == RDiv(img_w, img_h)
        cell_ar == RDiv(cell_w, cell_h)
        \* if img_ar > cell_ar: height is the constraint
        wider   == RLt(cell_ar, img_ar)
        base_crop_h == IF wider THEN img_h ELSE RDiv(img_w, cell_ar)
        base_crop_w == IF wider THEN RMul(img_h, cell_ar) ELSE img_w
        final_crop_w == RDiv(base_crop_w, zoom)
        final_crop_h == RDiv(base_crop_h, zoom)
        focal_px_x == RMul(focal_x, img_w)
        focal_px_y == RMul(focal_y, img_h)
        crop_x == RSub(focal_px_x, RDiv(final_crop_w, R(2)))
        crop_y == RSub(focal_px_y, RDiv(final_crop_h, R(2)))
    IN  [x |-> clamp(crop_x, R(0), RSub(img_w, final_crop_w)),
         y |-> clamp(crop_y, R(0), RSub(img_h, final_crop_h)),
         w |-> final_crop_w,
         h |-> final_crop_h]

----------------------------------------------------------------------------
(* Cropping logic, generate_cover.py (second copy of the same code)        *)

cover_clamp(value, min_val, max_val) == RMin(max_val, RMax(min_val, value))

cover_calculate_crop(img_w, img_h, cell_w, cell_h, focal_x, focal_y, zoom) ==
    LET img_ar  == RDiv(img_w, img_h)
        cell_ar == RDiv(cell_w, cell_h)
        wider   == RLt(cell_ar, img_ar)
        base_crop_h == IF wider THEN img_h ELSE RDiv(img_w, cell_ar)
        base_crop_w == IF wider THEN RMul(img_h, cell_ar) ELSE img_w
        final_crop_w == RDiv(base_crop_w, zoom)
        final_crop_h == RDiv(base_crop_h, zoom)
        focal_px_x == RMul(focal_x, img_w)
        focal_px_y == RMul(focal_y, img_h)
        crop_x == RSub(focal_px_x, RDiv(final_crop_w, R(2)))
        crop_y == RSub(focal_px_y, RDiv(final_crop_h, R(2)))
    IN  [x |-> cover_clamp(crop_x, R(0), RSub(img_w, final_crop_w)),
         y |-> cover_clamp(crop_y, R(0), RSub(img_h, final_crop_h)),
         w |-> final_crop_w,
         h |-> final_crop_h]

----------------------------------------------------------------------------
(* Image processing, generate_pdf.py.  An image buffer is a record naming  *)
(* the cell it was made for (owner), the call that made it, its mode and   *)
(* its pixel size; two buffers are the same object iff the records agree.  *)

Floor(a) == a.num \div a.den

\* Python's round() on a float: to the nearest integer, a tie to the even one
round(a) ==
    LET f == Floor(a)
        twice_rest == 2 * (a.num - f * a.den)
    IN  IF twice_rest < a.den THEN f
        ELSE IF twice_rest > a.den THEN f + 1
        ELSE IF f % 2 = 0 THEN f ELSE f + 1

\* variant of the crop box that rounds the corner and the extent separately
crop_box_rounded_separately(crop_x, crop_y, crop_w, crop_h) ==
    << round(crop_x), round(crop_y),
       round(crop_x) + round(crop_w), round(crop_y) + round(crop_h) >>

\* (left, upper, right, lower) handed to img.crop
crop_box(crop_x, crop_y, crop_w, crop_h) ==
    << round(crop_x), round(crop_y),
       round(RAdd(crop_x, crop_w)), round(RAdd(crop_y, crop_h)) >>

\* the resized buffer; the cropped intermediate is a local that is dropped
\* when the function returns
crop_and_resize_image(img, crop_x, crop_y, crop_w, crop_h, target_w_mm, target_h_mm, target_dpi) ==
    LET target_w_px == round(RMul(RDiv(target_w_mm, Rat(254, 10)), R(target_dpi)))
        target_h_px == round(RMul(RDiv(target_h_mm, Rat(254, 10)), R(target_dpi)))
    IN  [owner |-> img.owner, made_by |-> "crop_and_resize_image", mode |-> img.mode,
         size |-> <<target_w_px, target_h_px>>,
         crop_box |-> crop_box(crop_x, crop_y, crop_w, crop_h)]

\* the image itself when it is RGB already, else a new RGB buffer
convert_to_srgb(img) ==
    IF img.mode = "RGB" THEN img
    ELSE [owner |-> img.owner, made_by |-> "convert_to_srgb", mode |-> "RGB",
          size |-> img.size, crop_box |-> img.crop_box]

\* variant of the three close calls that leaves the loaded image open
close_images_but_loaded(open, img, processed_img, srgb_img) ==
    open \ {processed_img, srgb_img}

\* img.close(); processed_img.close(); srgb_img.close()
close_images(open, img, processed_img, srgb_img) ==
    open \ {img, processed_img, srgb_img}

----------------------------------------------------------------------------
(* Image processing, generate_cover.py (second copy of the same code)      *)

OUTPUT_DPI == 300

cover_crop_box(crop_x, crop_y, crop_w, crop_h) ==
    << round(crop_x), round(crop_y),
       round(RAdd(crop_x, crop_w)), round(RAdd(crop_y, crop_h)) >>

cover_crop_and_resize_image(img, crop_x, crop_y, crop_w, crop_h, target_w_mm, target_h_mm, target_dpi) ==
    LET target_w_px == round(RMul(RDiv(target_w_mm, Rat(254, 10)), R(target_dpi)))
        target_h_px == round(RMul(RDiv(target_h_mm, Rat(254, 10)), R(target_dpi)))
    IN  [owner |-> img.owner, made_by |-> "crop_and_resize_image", mode |-> img.mode,
         size |-> <<target_w_px, target_h_px>>,
         crop_box |-> cover_crop_box(crop_x, crop_y, crop_w, crop_h)]

cover_convert_to_srgb(img) ==
    IF img.mode = "RGB" THEN img
    ELSE [owner |-> img.owner, made_by |-> "convert_to_srgb", mode |-> "RGB",
          size |-> img.size, crop_box |-> img.crop_box]

\* back_img.close(); back_processed.close(); back_srgb.close(), and the same
\* three calls for the front image
cover_close_images(open, img, processed_img, srgb_img) ==
    open \ {img, processed_img, srgb_img}

----------------------------------------------------------------------------
(* Harness: calculate_crop applied to bounded inputs.                      *)

Focals == {Rat(k, FocalDen) : k \in 0..FocalDen}

Zooms == {Rat(k, ZoomDen) : k \in 1..MaxZoomNum}

CropInputs ==
    [img_w : 1..MaxImg, img_h : 1..MaxImg, cell_w : 1..MaxCell, cell_h : 1..MaxCell,
     focal_x : Focals, focal_y : Focals, zoom : Zooms]

\* the default focal point {"x": 0.5, "y": 0.5}, whatever the grid
DefaultFocalInputs ==
    [img_w : 1..MaxImg, img_h : 1..MaxImg, cell_w : 1..MaxCell, cell_h : 1..MaxCell,
     focal_x : {Rat(1, 2)}, focal_y : {Rat(1, 2)}, zoom : Zooms]

ZeroCrop == [x |-> R(0), y |-> R(0), w |-> R(0), h |-> R(0)]

NoOther == [zoom |-> R(1), out |-> ZeroCrop]

NoImage == [owner |-> "input", made_by |-> "none", mode |-> "RGB", size |-> <<0, 0>>]

CropIdle ==
    /\ crop_pc = "idle"
    /\ crop_in = [img_w |-> 1, img_h |-> 1, cell_w |-> 1, cell_h |-> 1,
                  focal_x |-> R(0), focal_y |-> R(0), zoom |-> R(1)]
    /\ crop_out = ZeroCrop
    /\ crop_other = NoOther
    /\ crop_img = NoImage

NoSpine ==
    [paper_pages |-> 0,
     spine |-> [kind |-> "none", value |-> 0, warned |-> FALSE],
     other |-> [kind |-> "none", value |-> 0, warned |-> FALSE]]

SpineIdle ==
    /\ spine_pc = "idle"
    /\ spine_in = [album_pages |-> 0, other_pages |-> 0]
    /\ spine_out = NoSpine

\* locals of generate_pdf before they are assigned
WalkUnset ==
    /\ interior_pages = <<>>
    /\ page_idx = 0 /\ row_idx = 0 /\ col_idx = 0 /\ cell_idx = 0
    /\ current_x = R(0) /\ current_y_from_top = R(0)
    /\ canvas = <<>> /\ printed = <<>> /\ low_dpi_warnings = <<>>
    /\ open_images = {} /\ cell_images = <<>>
    /\ first_cell = <<>>

PdfIdle ==
    /\ pdf_pc = "idle"
    /\ album = [photobook_version |-> "1", pages |-> <<>>]
    /\ WalkUnset

\* locals of generate_cover before they are assigned
NoLocals ==
    [paper_pages |-> 0, spine_width |-> 0, total_width |-> 0,
     back_image_width |-> R(0), front_image_width |-> R(0),
     front_cell |-> <<>>, back_cell |-> <<>>, images |-> <<>>]

CoverIdle ==
    /\ cover_pc = "idle"
    /\ cover_album = [photobook_version |-> "1", pages |-> <<>>]
    /\ cover_locals = NoLocals
    /\ cover_canvas = <<>>
    /\ cover_printed = <<>>
    /\ exit_code = 0
    /\ cover_open_images = {}

InitCrop ==
    /\ crop_pc = "input"
    /\ crop_in \in CropInputs \cup DefaultFocalInputs
    /\ crop_out = ZeroCrop
    /\ crop_other = NoOther
    /\ crop_img = NoImage
    /\ SpineIdle
    /\ PdfIdle
    /\ CoverIdle

CallCalculateCrop ==
    /\ crop_pc = "input"
    /\ crop_pc' = "pdf"
    /\ crop_out' = calculate_crop(R(crop_in.img_w), R(crop_in.img_h),
                                  R(crop_in.cell_w), R(crop_in.cell_h),
                                  crop_in.focal_x, crop_in.focal_y, crop_in.zoom)
    /\ UNCHANGED <<crop_in, crop_other, crop_img, spineVars, pdfVars, coverVars>>

CallCoverCalculateCrop ==
    /\ crop_pc = "input"
    /\ crop_pc' = "cover"
    /\ crop_out' = cover_calculate_crop(R(crop_in.img_w), R(crop_in.img_h),
                                        R(crop_in.cell_w), R(crop_in.cell_h),
                                        crop_in.focal_x, crop_in.focal_y, crop_in.zoom)
    /\ UNCHANGED <<crop_in, crop_other, crop_img, spineVars, pdfVars, coverVars>>

\* calculate_crop once more on the same image, cell and focal point with a
\* larger zoom
CallCalculateCropAgain ==
    /\ crop_pc = "pdf"
    /\ crop_pc' = "pdf_again"
    /\ \E zoom \in Zooms :
          /\ RLt(crop_in.zoom, zoom)
          /\ crop_other' =
                [zoom |-> zoom,
                 out |-> calculate_crop(R(crop_in.img_w), R(crop_in.img_h),
                                        R(crop_in.cell_w), R(crop_in.cell_h),
                                        crop_in.focal_x, crop_in.focal_y, zoom)]
    /\ UNCHANGED <<crop_in, crop_out, crop_img, spineVars, pdfVars, coverVars>>

\* the image of the given size as load_image returns it
InputImage ==
    [owner |-> "input", made_by |-> "load_image", mode |-> "RGB",
     size |-> <<crop_in.img_w, crop_in.img_h>>]

\* render_cell's call: the crop, and the cell's size in mm at 300 DPI
CallCropAndResizeImage ==
    /\ crop_pc = "pdf"
    /\ crop_pc' = "pdf_resized"
    /\ crop_img' = crop_and_resize_image(InputImage, crop_out.x, crop_out.y,
                                         crop_out.w, crop_out.h,
                                         RMul(R(crop_in.cell_w), SCALE_FACTOR),
                                         RMul(R(crop_in.cell_h), SCALE_FACTOR), 300)
    /\ UNCHANGED <<crop_in, crop_out, crop_other, spineVars, pdfVars, coverVars>>

\* generate_cover's call: the crop, and the panel's size in mm at OUTPUT_DPI
CallCoverCropAndResizeImage ==
    /\ crop_pc = "cover"
    /\ crop_pc' = "cover_resized"
    /\ crop_img' = cover_crop_and_resize_image(InputImage, crop_out.x, crop_out.y,
                                               crop_out.w, crop_out.h,
                                               R(crop_in.cell_w), R(crop_in.cell_h),
                                               OUTPUT_DPI)
    /\ UNCHANGED <<crop_in, crop_out, crop_other, spineVars, pdfVars, coverVars>>

NextCrop ==
    \/ CallCalculateCrop \/ CallCoverCalculateCrop
    \/ CallCalculateCropAgain
    \/ CallCropAndResizeImage \/ CallCoverCropAndResizeImage

SpecCrop == InitCrop /\ [][NextCrop]_vars

\* C1: for positive image and cell sizes, a focal point in [0,1]^2 and
\* zoom >= 1, the crop returned by either copy of calculate_crop lies inside
\* the image: 0 <= x, 0 <= y, x + w <= img_w, y + h <= img_h.
C1_CropInsideImage ==
    (crop_pc \in {"pdf", "cover"} /\ RLe(R(1), crop_in.zoom)) =>
        /\ RLe(R(0), crop_out.x)
        /\ RLe(R(0), crop_out.y)
        /\ RLe(RAdd(crop_out.x, crop_out.w), R(crop_in.img_w))
        /\ RLe(RAdd(crop_out.y, crop_out.h), R(crop_in.img_h))

\* a zoomed crop pushed against the right edge by the focal point
C1_Witness ==
    /\ crop_pc = "cover"
    /\ RLt(R(1), crop_in.zoom)
    /\ crop_in.focal_x = R(1)
    /\ RLt(R(0), crop_out.x)
    /\ RAdd(crop_out.x, crop_out.w) = R(crop_in.img_w)

\* the aspect ratio cell_w / cell_h of the call
CellAspect == Rat(crop_in.cell_w, crop_in.cell_h)

\* C13: for a fixed image, cell and focal point and zooms 1 <= z1 < z2, the
\* crop at z2 is strictly narrower and strictly lower than the crop at z1,
\* and both crops have the aspect ratio w/h = cell_w/cell_h.
C13_ZoomShrinksCrop ==
    (crop_pc = "pdf_again" /\ RLe(R(1), crop_in.zoom) /\ RLt(crop_in.zoom, crop_other.zoom)) =>
        /\ RLt(crop_other.out.w, crop_out.w)
        /\ RLt(crop_other.out.h, crop_out.h)
        /\ RDiv(crop_out.w, crop_out.h) = CellAspect
        /\ RDiv(crop_other.out.w, crop_other.out.h) = CellAspect

\* zoom 1 against zoom 2 on a cell that is not square: the crop has halved
C13_Witness ==
    /\ crop_pc = "pdf_again"
    /\ crop_in.zoom = R(1) /\ crop_other.zoom = R(2)
    /\ crop_in.cell_w # crop_in.cell_h
    /\ crop_out.w = RMul(R(2), crop_other.out.w)
    /\ crop_out.h = RMul(R(2), crop_other.out.h)

\* C14: at zoom 1 and focal point (0.5, 0.5) the crop is centred on the image
\* (x + w/2 = img_w/2, y + h/2 = img_h/2), has the aspect ratio
\* cell_w/cell_h, and spans the image on the constraining axis (w = img_w or
\* h = img_h).
C14_CentredCoverBox ==
    (/\ crop_pc \in {"pdf", "cover"}
     /\ crop_in.zoom = R(1)
     /\ crop_in.focal_x = Rat(1, 2) /\ crop_in.focal_y = Rat(1, 2)) =>
        /\ RAdd(crop_out.x, RDiv(crop_out.w, R(2))) = Rat(crop_in.img_w, 2)
        /\ RAdd(crop_out.y, RDiv(crop_out.h, R(2))) = Rat(crop_in.img_h, 2)
        /\ RDiv(crop_out.w, crop_out.h) = CellAspect
        /\ crop_out.w = R(crop_in.img_w) \/ crop_out.h = R(crop_in.img_h)

\* a landscape image in a portrait cell: full height, sides cut off equally
C14_Witness ==
    /\ crop_pc = "pdf"
    /\ crop_in.zoom = R(1)
    /\ crop_in.focal_x = Rat(1, 2) /\ crop_in.focal_y = Rat(1, 2)
    /\ crop_in.img_w > crop_in.img_h /\ crop_in.cell_w < crop_in.cell_h
    /\ crop_out.h = R(crop_in.img_h)
    /\ RLt(R(0), crop_out.x)

\* C17: for zoom >= 1 and a focal point in [0,1]^2 the integer box that
\* crop_and_resize_image (either copy) hands to img.crop lies inside the
\* image: 0 <= left <= right <= img_w and 0 <= top <= bottom <= img_h.
C17_CropBoxInsideImage ==
    (crop_pc \in {"pdf_resized", "cover_resized"} /\ RLe(R(1), crop_in.zoom)) =>
        LET box == crop_img.crop_box
        IN  /\ 0 <= box[1] /\ box[1] <= box[3] /\ box[3] <= crop_in.img_w
            /\ 0 <= box[2] /\ box[2] <= box[4] /\ box[4] <= crop_in.img_h

\* a crop whose left edge is not an integer, pushed against the right edge
C17_Witness ==
    /\ crop_pc = "pdf_resized"
    /\ RLt(R(1), crop_in.zoom)
    /\ crop_out.x.den # 1
    /\ crop_img.crop_box[1] # 0
    /\ crop_img.crop_box[3] = crop_in.img_w

----------------------------------------------------------------------------
(* Spine calculation, generate_cover.py                                    *)

MaxAlbumPages == 410   \* album page counts range over 0..MaxAlbumPages
MaxOtherPages == 205   \* second paper-page argument ranges over 0..MaxOtherPages

\* variant of the table with the 9mm and 10mm rows exchanged
SPINE_TABLE_swapped ==
    << <<24, 34, 6>>,    <<36, 46, 7>>,    <<48, 60, 8>>,    <<62, 70, 10>>,
       <<72, 82, 9>>,    <<84, 98, 11>>,   <<100, 114, 12>>, <<116, 126, 13>>,
       <<128, 138, 14>>, <<140, 154, 15>>, <<156, 170, 16>>, <<172, 186, 17>>,
       <<188, 196, 18>>, <<200, 200, 19>> >>

\* (min_pages, max_pages, spine_mm)
SPINE_TABLE ==
    << <<24, 34, 6>>,    <<36, 46, 7>>,    <<48, 60, 8>>,    <<62, 70, 9>>,
       <<72, 82, 10>>,   <<84, 98, 11>>,   <<100, 114, 12>>, <<116, 126, 13>>,
       <<128, 138, 14>>, <<140, 154, 15>>, <<156, 170, 16>>, <<172, 186, 17>>,
       <<188, 196, 18>>, <<200, 200, 19>> >>

\* variant that forgets the two reserved cover pages
calculate_paper_pages_with_covers(album_pages) == album_pages \div 2

\* Python's // is floor division, as is \div for a positive divisor
calculate_paper_pages(album_pages) == (album_pages - 2) \div 2

\* the for-loop over SPINE_TABLE from entry i on: first matching entry, 0 if none
RECURSIVE SpineScan(_, _)
SpineScan(i, paper_pages) ==
    IF i > Len(SPINE_TABLE) THEN 0
    ELSE IF SPINE_TABLE[i][1] <= paper_pages /\ paper_pages <= SPINE_TABLE[i][2]
         THEN SPINE_TABLE[i][3]
         ELSE SpineScan(i + 1, paper_pages)

\* outcome of get_spine_width: a returned width (with or without a printed
\* warning) or the raised ValueError
get_spine_width(paper_pages) ==
    LET hit == SpineScan(1, paper_pages)
    IN  IF hit # 0 THEN [kind |-> "return", value |-> hit, warned |-> FALSE]
        ELSE IF paper_pages < 24 THEN [kind |-> "return", value |-> 6, warned |-> TRUE]
        ELSE IF paper_pages > 200 THEN [kind |-> "return", value |-> 19, warned |-> TRUE]
        ELSE [kind |-> "raise", value |-> 0, warned |-> FALSE]

----------------------------------------------------------------------------
(* Harness: the spine functions applied to bounded inputs.                 *)

InitSpine ==
    /\ spine_pc = "input"
    /\ spine_in \in [album_pages : 0..MaxAlbumPages, other_pages : 0..MaxOtherPages]
    /\ spine_out = NoSpine
    /\ CropIdle
    /\ PdfIdle
    /\ CoverIdle

\* paper_pages = calculate_paper_pages(len(pages)); get_spine_width(paper_pages),
\* and get_spine_width on a second page count for comparison
CallGetSpineWidth ==
    /\ spine_pc = "input"
    /\ spine_pc' = "done"
    /\ LET paper_pages == calculate_paper_pages(spine_in.album_pages)
       IN  spine_out' = [paper_pages |-> paper_pages,
                         spine |-> get_spine_width(paper_pages),
                         other |-> get_spine_width(spine_in.other_pages)]
    /\ UNCHANGED <<spine_in, cropVars, pdfVars, coverVars>>

NextSpine == CallGetSpineWidth

SpecSpine == InitSpine /\ [][NextSpine]_vars

TableWidths == {SPINE_TABLE[i][3] : i \in 1..Len(SPINE_TABLE)}

\* C2 (as claimed): for every paper_pages in 24..200 get_spine_width returns
\* a width of the table and does not raise 'Cannot determine spine width'.
C2_TableCovers24To200 ==
    (spine_pc = "done" /\ 24 <= spine_out.paper_pages /\ spine_out.paper_pages <= 200) =>
        /\ spine_out.spine.kind = "return"
        /\ spine_out.spine.value \in TableWidths

C8_SpineMonotone ==
    (spine_pc = "done" /\ spine_out.spine.kind = "return" /\ spine_out.other.kind = "return") =>
        LET p == spine_out.paper_pages
            q == spine_in.other_pages
        IN  /\ p <= q => spine_out.spine.value <= spine_out.other.value
            /\ q <= p => spine_out.other.value <= spine_out.spine.value

\* two different table rows compared, the smaller page count first
C8_Witness ==
    /\ spine_pc = "done"
    /\ spine_out.paper_pages = 65
    /\ spine_in.other_pages = 75
    /\ spine_out.spine.value < spine_out.other.value

----------------------------------------------------------------------------
(* Input documents.  A dict is a record; an absent key is an absent field. *)

HasKey(d, k) == k \in DOMAIN d

\* d.get(k, default)
Get(d, k, default) == IF k \in DOMAIN d THEN d[k] ELSE default

\* image files in the image folder, with their pixel sizes and modes after
\* load_image
Disk ==
    [p \in {"a.jpg", "small.jpg", "cover.jpg"} |->
        CASE p = "a.jpg"     -> [w |-> 4000, h |-> 3000, mode |-> "RGB"]
          [] p = "small.jpg" -> [w |-> 800,  h |-> 600,  mode |-> "L"]
          [] p = "cover.jpg" -> [w |-> 3000, h |-> 2000, mode |-> "RGB"]]

MaxPages == 5   \* albums have 0..MaxPages pages
MaxCells == 2   \* generated rows hold 0..MaxCells cells

\* the page used as first and last page of every album with two or more pages
CoverPage ==
    [layout |-> "1",
     rows |-> << [height |-> 598, cells |-> << [width |-> 730, path |-> "cover.jpg"] >>] >>]

CellPool ==
    { [width |-> 300, path |-> "a.jpg"], [width |-> 400, path |-> "a.jpg"],
      [width |-> 400, path |-> "gone.jpg"] }

\* single-row pages over every cell sequence of CellPool up to MaxCells cells
GeneratedPages ==
    { [layout |-> "row", rows |-> << [height |-> 295, cells |-> cs] >>] :
        cs \in UNION { [1..k -> CellPool] : k \in 0..MaxCells } }

FullPage ==
    [layout |-> "1",
     rows |-> << [height |-> 598, cells |-> << [width |-> 730, path |-> "a.jpg"] >>] >>]

TwoCellPage ==
    [layout |-> "2",
     rows |-> << [height |-> 598,
                  cells |-> << [width |-> 300, path |-> "a.jpg"],
                               [width |-> 400, path |-> "a.jpg"] >>] >>]

TwoRowPage ==
    [layout |-> "2-1",
     rows |-> << [height |-> 295,
                  cells |-> << [width |-> 361, path |-> "small.jpg"],
                               [width |-> 362, path |-> "a.jpg"] >>],
                 [height |-> 296,
                  cells |-> << [path |-> "a.jpg", zoom |-> Rat(2, 1),
                                focalPoint |-> [x |-> Rat(1, 4), y |-> Rat(3, 4)]] >>] >>]

ColumnPage ==
    [layout |-> "1-2",
     columns |-> << [width |-> 361, cells |-> << [path |-> "a.jpg"] >>],
                    [width |-> 362,
                     cells |-> << [height |-> 295, path |-> "gone.jpg"],
                                  [height |-> 296, path |-> "a.jpg"] >>] >>]

\* rows and columns both populated
BothPage ==
    [layout |-> "1-1",
     rows |-> << [height |-> 598, cells |-> << [width |-> 730, path |-> "a.jpg"] >>] >>,
     columns |-> << [width |-> 361, cells |-> << [height |-> 598, path |-> "small.jpg"] >>],
                    [width |-> 362, cells |-> << [height |-> 598, path |-> "a.jpg"] >>] >>]

\* rows without an image, columns with one
BothPageEmptyRows ==
    [layout |-> "1-1",
     rows |-> << [height |-> 598, cells |-> << [width |-> 730] >>] >>,
     columns |-> << [width |-> 730, cells |-> << [path |-> "a.jpg"] >>] >>]

\* a columns key holding an empty list
RowsWithEmptyColumnsPage ==
    [layout |-> "1",
     rows |-> << [height |-> 598, cells |-> << [width |-> 365], [width |-> 358, path |-> ""],
                                               [path |-> "a.jpg"] >>] >>,
     columns |-> << >>]

BlankPage == [layout |-> "1"]

CuratedPages ==
    { FullPage, TwoCellPage, TwoRowPage, ColumnPage, BothPage, BothPageEmptyRows,
      RowsWithEmptyColumnsPage, BlankPage }

PagePool == GeneratedPages \cup CuratedPages

\* a row whose first image is missing from the image folder
GonePage ==
    [layout |-> "row",
     rows |-> << [height |-> 295,
                  cells |-> << [width |-> 400, path |-> "gone.jpg"],
                               [width |-> 300, path |-> "a.jpg"] >>] >>]

\* pages of the albums with two or more interior pages
SequencePool == { FullPage, ColumnPage, BlankPage, GonePage }

\* albums of 0..MaxPages pages: cover pages first and last; one interior page
\* from PagePool, or several from SequencePool
AlbumPages ==
    { <<>>, <<CoverPage>>, <<CoverPage, CoverPage>> }
    \cup { <<CoverPage, p, CoverPage>> : p \in PagePool }
    \cup { <<CoverPage>> \o mid \o <<CoverPage>> :
             mid \in UNION { [1..k -> SequencePool] : k \in 2..(MaxPages - 2) } }

Albums == { [photobook_version |-> "1", pages |-> ps] : ps \in AlbumPages }

----------------------------------------------------------------------------
(* generate_pdf.py: render_cell and generate_pdf                           *)

\* cell.get("path") is truthy
HasPath(cell) == HasKey(cell, "path") /\ cell.path # ""

calculate_effective_dpi(crop_width, print_width_mm) ==
    LET print_width_inches == RDiv(print_width_mm, Rat(254, 10))
    IN  RDiv(crop_width, print_width_inches)

\* Image.open and ImageOps.exif_transpose: the buffer bound to img; the file
\* object of Image.open is no longer referenced once img is rebound
load_image(image_path, owner) ==
    [owner |-> owner, made_by |-> "load_image", mode |-> Disk[image_path].mode,
     size |-> <<Disk[image_path].w, Disk[image_path].h>>]

NoEffect == [ops |-> <<>>, out |-> <<>>, low |-> <<>>, opened |-> <<>>]

\* render_cell from "Load image" to the draw command: crop, DPI check,
\* resample, sRGB, draw.  src names the position the caller is at; it is
\* carried along to tell the cells apart and is not read by the code.
\* opened: the locals img, processed_img, srgb_img, open at this point.
render_image(cell, cell_width_ui, cell_height_ui, cell_width_mm, cell_height_mm, pdf_x, pdf_y, src) ==
    LET img == load_image(cell.path, src)
        img_w == img.size[1]
        img_h == img.size[2]
        focal_point == Get(cell, "focalPoint", [x |-> Rat(1, 2), y |-> Rat(1, 2)])
        zoom == Get(cell, "zoom", R(1))
        crop == calculate_crop(R(img_w), R(img_h), R(cell_width_ui), R(cell_height_ui),
                               focal_point.x, focal_point.y, zoom)
        effective_dpi == calculate_effective_dpi(crop.w, cell_width_mm)
        warning == IF RLt(effective_dpi, R(MIN_DPI_WARNING))
                   THEN << [msg |-> "Low DPI warning", path |-> cell.path] >>
                   ELSE <<>>
        processed_img == crop_and_resize_image(img, crop.x, crop.y, crop.w, crop.h,
                                               cell_width_mm, cell_height_mm, 300)
        srgb_img == convert_to_srgb(processed_img)
    IN  [ops |-> << [op |-> "drawImage", path |-> cell.path, x |-> pdf_x, y |-> pdf_y,
                     width |-> RMul(cell_width_mm, mm),
                     height |-> RMul(cell_height_mm, mm), crop |-> crop, src |-> src] >>,
         out |-> warning,
         low |-> warning,
         opened |-> <<img, processed_img, srgb_img>>]

\* variant of render_cell that skips a missing image without a message
render_cell_silent_skip(cell, cell_width_ui, cell_height_ui, cell_width_mm, cell_height_mm, pdf_x, pdf_y, src) ==
    IF ~HasPath(cell) \/ cell.path \notin DOMAIN Disk THEN NoEffect
    ELSE render_image(cell, cell_width_ui, cell_height_ui, cell_width_mm, cell_height_mm,
                      pdf_x, pdf_y, src)

\* What one call of render_cell does up to its draw command: the canvas
\* operations it issues, the lines it prints, the entries it appends to
\* low_dpi_warnings and the image buffers it has opened.
render_cell(cell, cell_width_ui, cell_height_ui, cell_width_mm, cell_height_mm, pdf_x, pdf_y, src) ==
    IF ~HasPath(cell) THEN NoEffect
    ELSE IF cell.path \notin DOMAIN Disk
    THEN [ops |-> <<>>,
          out |-> << [msg |-> "Warning: Image not found", path |-> cell.path] >>,
          low |-> <<>>,
          opened |-> <<>>]
    ELSE render_image(cell, cell_width_ui, cell_height_ui, cell_width_mm, cell_height_mm,
                      pdf_x, pdf_y, src)

\* the buffers named by a sequence of locals
Buffers(images) == { images[i] : i \in 1..Len(images) }

\* variant of the page slice that keeps the last page
interior_pages_of_keep_last(pages) ==
    IF Len(pages) > 2 THEN SubSeq(pages, 2, Len(pages)) ELSE <<>>

\* album["pages"][1:-1] if len(album["pages"]) > 2 else []
interior_pages_of(pages) ==
    IF Len(pages) > 2 THEN SubSeq(pages, 2, Len(pages) - 1) ELSE <<>>

\* variant of the walk choice that prefers the rows when both are populated
uses_column_walk_unless_rows(page) ==
    /\ HasKey(page, "columns") /\ page.columns # <<>>
    /\ ~(HasKey(page, "rows") /\ page.rows # <<>>)

\* if "columns" in page and page["columns"]
uses_column_walk(page) == HasKey(page, "columns") /\ page.columns # <<>>

\* variant of the offset step that never adds the gutter
advance_without_gutter(offset, extent_mm, idx, count) == RAdd(offset, extent_mm)

\* offset += extent_mm; if idx < count - 1: offset += PRINT_GUTTER
advance(offset, extent_mm, idx, count) ==
    IF idx < count - 1 THEN RAdd(RAdd(offset, extent_mm), PRINT_GUTTER)
    ELSE RAdd(offset, extent_mm)

CurrentPage == interior_pages[page_idx + 1]

InitPdf ==
    /\ pdf_pc = "start"
    /\ album \in Albums
    /\ WalkUnset
    /\ CropIdle
    /\ SpineIdle
    /\ CoverIdle

\* entry of generate_pdf up to the page loop
GeneratePdfStart ==
    /\ pdf_pc = "start"
    /\ interior_pages' = interior_pages_of(album.pages)
    /\ IF interior_pages' = <<>>
       THEN /\ printed' = Append(printed, [msg |-> "Error: Album has no interior pages"])
            /\ pdf_pc' = "done"
            /\ UNCHANGED <<canvas, low_dpi_warnings, page_idx>>
       ELSE /\ canvas' = << [op |-> "Canvas",
                             pagesize |-> <<RMul(R(PRINT_PAGE_WIDTH), mm),
                                            RMul(R(PRINT_PAGE_HEIGHT), mm)>>] >>
            /\ low_dpi_warnings' = <<>>
            /\ page_idx' = 0
            /\ pdf_pc' = "page"
            /\ UNCHANGED printed
    /\ UNCHANGED <<album, row_idx, col_idx, cell_idx, current_x, current_y_from_top,
                   first_cell, imgVars,
                   cropVars, spineVars, coverVars>>

\* top of the page loop: choose the column walk or the row walk
BeginPage ==
    /\ pdf_pc = "page"
    /\ IF uses_column_walk(CurrentPage)
       THEN /\ current_x' = R(0)
            /\ col_idx' = 0
            /\ pdf_pc' = "col"
            /\ UNCHANGED <<current_y_from_top, row_idx>>
       ELSE /\ current_y_from_top' = R(0)
            /\ row_idx' = 0
            /\ pdf_pc' = "row"
            /\ UNCHANGED <<current_x, col_idx>>
    /\ UNCHANGED <<album, interior_pages, page_idx, cell_idx, outVars, first_cell, imgVars,
                   cropVars, spineVars, coverVars>>

\* variant of the column loop that does not reset the vertical offset
BeginColumn_without_reset ==
    /\ pdf_pc = "col"
    /\ col_idx < Len(CurrentPage.columns)
    /\ cell_idx' = 0
    /\ pdf_pc' = "col_cell"
    /\ UNCHANGED <<album, interior_pages, page_idx, row_idx, col_idx, current_x,
                   current_y_from_top, outVars, first_cell, imgVars,
                   cropVars, spineVars, coverVars>>

\* for col_idx, column in enumerate(page["columns"]): next column
BeginColumn ==
    /\ pdf_pc = "col"
    /\ col_idx < Len(CurrentPage.columns)
    /\ current_y_from_top' = R(0)
    /\ cell_idx' = 0
    /\ pdf_pc' = "col_cell"
    /\ UNCHANGED <<album, interior_pages, page_idx, row_idx, col_idx, current_x, outVars,
                   first_cell, imgVars,
                   cropVars, spineVars, coverVars>>

\* one iteration of the cell loop of a column: the call of render_cell up to
\* its draw command (or its early return)
RenderColumnCell ==
    /\ pdf_pc = "col_cell"
    /\ LET column == CurrentPage.columns[col_idx + 1]
       IN  /\ cell_idx < Len(column.cells)
           /\ LET cell == column.cells[cell_idx + 1]
                  col_width_ui == column.width
                  col_width_mm == RMul(R(col_width_ui), SCALE_FACTOR)
                  cell_height_ui == Get(cell, "height", UI_PAGE_HEIGHT)
                  cell_height_mm == RMul(R(cell_height_ui), SCALE_FACTOR)
                  cell_width_mm == col_width_mm
                  pdf_x == RMul(RAdd(R(PRINT_MARGIN), current_x), mm)
                  pdf_y == RMul(RSub(RSub(R(PRINT_PAGE_HEIGHT - PRINT_MARGIN),
                                          current_y_from_top), cell_height_mm), mm)
              IN  \E done \in { render_cell(cell, col_width_ui, cell_height_ui,
                                              cell_width_mm, cell_height_mm, pdf_x, pdf_y,
                                              [walk |-> "columns", page |-> page_idx,
                                               line |-> col_idx, cell |-> cell_idx]) } :
                      /\ canvas' = canvas \o done.ops
                      /\ printed' = printed \o done.out
                      /\ low_dpi_warnings' = low_dpi_warnings \o done.low
                      /\ open_images' = open_images \cup Buffers(done.opened)
                      /\ cell_images' = done.opened
    /\ pdf_pc' = "col_cell_drawn"
    /\ UNCHANGED <<album, interior_pages, walkVars, first_cell,
                   cropVars, spineVars, coverVars>>

\* render_cell closes its images and returns; the caller moves down the column
FinishColumnCell ==
    /\ pdf_pc = "col_cell_drawn"
    /\ open_images' = IF cell_images = <<>> THEN open_images
                      ELSE close_images(open_images, cell_images[1], cell_images[2],
                                        cell_images[3])
    /\ cell_images' = <<>>
    /\ LET column == CurrentPage.columns[col_idx + 1]
           cell == column.cells[cell_idx + 1]
           cell_height_ui == Get(cell, "height", UI_PAGE_HEIGHT)
           cell_height_mm == RMul(R(cell_height_ui), SCALE_FACTOR)
       IN  current_y_from_top' = advance(current_y_from_top, cell_height_mm,
                                         cell_idx, Len(column.cells))
    /\ cell_idx' = cell_idx + 1
    /\ pdf_pc' = "col_cell"
    /\ UNCHANGED <<album, interior_pages, page_idx, row_idx, col_idx, current_x,
                   outVars, first_cell, cropVars, spineVars, coverVars>>

\* after the last cell of a column: move to the next column position
EndColumn ==
    /\ pdf_pc = "col_cell"
    /\ LET column == CurrentPage.columns[col_idx + 1]
       IN  /\ cell_idx >= Len(column.cells)
           /\ current_x' = advance(current_x, RMul(R(column.width), SCALE_FACTOR),
                                   col_idx, Len(CurrentPage.columns))
    /\ col_idx' = col_idx + 1
    /\ pdf_pc' = "col"
    /\ UNCHANGED <<album, interior_pages, page_idx, row_idx, cell_idx, current_y_from_top,
                   outVars, first_cell, imgVars,
                   cropVars, spineVars, coverVars>>

ColumnsDone ==
    /\ pdf_pc = "col"
    /\ col_idx >= Len(CurrentPage.columns)
    /\ pdf_pc' = "end_page"
    /\ UNCHANGED <<album, interior_pages, walkVars, outVars, first_cell, imgVars,
                   cropVars, spineVars, coverVars>>

\* rows = page.get("rows", [])
RowsOf(page) == Get(page, "rows", <<>>)

\* for row_idx, row in enumerate(rows): next row
BeginRow ==
    /\ pdf_pc = "row"
    /\ row_idx < Len(RowsOf(CurrentPage))
    /\ current_x' = R(0)
    /\ cell_idx' = 0
    /\ pdf_pc' = "row_cell"
    /\ UNCHANGED <<album, interior_pages, page_idx, row_idx, col_idx, current_y_from_top,
                   outVars, first_cell, imgVars,
                   cropVars, spineVars, coverVars>>

\* one iteration of the cell loop of a row: the call of render_cell up to its
\* draw command (or its early return)
RenderRowCell ==
    /\ pdf_pc = "row_cell"
    /\ LET row == RowsOf(CurrentPage)[row_idx + 1]
       IN  /\ cell_idx < Len(row.cells)
           /\ LET cell == row.cells[cell_idx + 1]
                  row_height_ui == row.height
                  row_height_mm == RMul(R(row_height_ui), SCALE_FACTOR)
                  cell_width_ui == Get(cell, "width", UI_PAGE_WIDTH)
                  cell_width_mm == RMul(R(cell_width_ui), SCALE_FACTOR)
                  cell_height_mm == row_height_mm
                  pdf_x == RMul(RAdd(R(PRINT_MARGIN), current_x), mm)
                  pdf_y == RMul(RSub(RSub(R(PRINT_PAGE_HEIGHT - PRINT_MARGIN),
                                          current_y_from_top), cell_height_mm), mm)
              IN  \E done \in { render_cell(cell, cell_width_ui, row_height_ui,
                                              cell_width_mm, cell_height_mm, pdf_x, pdf_y,
                                              [walk |-> "rows", page |-> page_idx,
                                               line |-> row_idx, cell |-> cell_idx]) } :
                      /\ canvas' = canvas \o done.ops
                      /\ printed' = printed \o done.out
                      /\ low_dpi_warnings' = low_dpi_warnings \o done.low
                      /\ open_images' = open_images \cup Buffers(done.opened)
                      /\ cell_images' = done.opened
    /\ pdf_pc' = "row_cell_drawn"
    /\ UNCHANGED <<album, interior_pages, walkVars, first_cell,
                   cropVars, spineVars, coverVars>>

\* render_cell closes its images and returns; the caller moves along the row
FinishRowCell ==
    /\ pdf_pc = "row_cell_drawn"
    /\ open_images' = IF cell_images = <<>> THEN open_images
                      ELSE close_images(open_images, cell_images[1], cell_images[2],
                                        cell_images[3])
    /\ cell_images' = <<>>
    /\ LET row == RowsOf(CurrentPage)[row_idx + 1]
           cell == row.cells[cell_idx + 1]
           cell_width_ui == Get(cell, "width", UI_PAGE_WIDTH)
           cell_width_mm == RMul(R(cell_width_ui), SCALE_FACTOR)
       IN  current_x' = advance(current_x, cell_width_mm, cell_idx, Len(row.cells))
    /\ cell_idx' = cell_idx + 1
    /\ pdf_pc' = "row_cell"
    /\ UNCHANGED <<album, interior_pages, page_idx, row_idx, col_idx, current_y_from_top,
                   outVars, first_cell, cropVars, spineVars, coverVars>>

\* after the last cell of a row: move to the next row position
EndRow ==
    /\ pdf_pc = "row_cell"
    /\ LET rows == RowsOf(CurrentPage)
           row == rows[row_idx + 1]
       IN  /\ cell_idx >= Len(row.cells)
           /\ current_y_from_top' = advance(current_y_from_top,
                                            RMul(R(row.height), SCALE_FACTOR),
                                            row_idx, Len(rows))
    /\ row_idx' = row_idx + 1
    /\ pdf_pc' = "row"
    /\ UNCHANGED <<album, interior_pages, page_idx, col_idx, cell_idx, current_x,
                   outVars, first_cell, imgVars,
                   cropVars, spineVars, coverVars>>

RowsDone ==
    /\ pdf_pc = "row"
    /\ row_idx >= Len(RowsOf(CurrentPage))
    /\ pdf_pc' = "end_page"
    /\ UNCHANGED <<album, interior_pages, walkVars, outVars, first_cell, imgVars,
                   cropVars, spineVars, coverVars>>

\* bottom of the page loop: page break except after the last page
EndPage ==
    /\ pdf_pc = "end_page"
    /\ IF page_idx < Len(interior_pages) - 1
       THEN /\ canvas' = Append(canvas, [op |-> "showPage"])
            /\ page_idx' = page_idx + 1
            /\ pdf_pc' = "page"
       ELSE /\ pdf_pc' = "save"
            /\ UNCHANGED <<canvas, page_idx>>
    /\ UNCHANGED <<album, interior_pages, row_idx, col_idx, cell_idx, current_x,
                   current_y_from_top, printed, low_dpi_warnings, first_cell, imgVars,
                   cropVars, spineVars, coverVars>>

\* c.save() and the closing summary
SavePdf ==
    /\ pdf_pc = "save"
    /\ canvas' = Append(canvas, [op |-> "save"])
    /\ printed' = IF low_dpi_warnings # <<>>
                  THEN Append(printed, [msg |-> "Warning: image(s) have DPI below minimum",
                                        count |-> Len(low_dpi_warnings)])
                  ELSE printed
    /\ pdf_pc' = "done"
    /\ UNCHANGED <<album, interior_pages, walkVars, low_dpi_warnings, first_cell, imgVars,
                   cropVars, spineVars, coverVars>>

----------------------------------------------------------------------------
(* generate_cover.py: page inspection                                      *)

\* the cells of a list of rows or columns, in order
RECURSIVE CellsOf(_)
CellsOf(lines) == IF lines = <<>> THEN <<>> ELSE Head(lines).cells \o CellsOf(Tail(lines))

Populated(page, key) == HasKey(page, key) /\ page[key] # <<>>

\* the returned cell as a one-element sequence, None as the empty sequence
get_first_cell_with_image(page) ==
    LET in_rows == IF Populated(page, "rows")
                   THEN SelectSeq(CellsOf(page.rows), HasPath) ELSE <<>>
        in_cols == IF Populated(page, "columns")
                   THEN SelectSeq(CellsOf(page.columns), HasPath) ELSE <<>>
    IN  IF in_rows # <<>> THEN <<Head(in_rows)>>
        ELSE IF in_cols # <<>> THEN <<Head(in_cols)>>
        ELSE <<>>

\* Harness: get_first_cell_with_image applied to a page of the album that
\* generate_pdf has just rendered.
CallGetFirstCellWithImage ==
    /\ pdf_pc = "done"
    /\ \E i \in 1..Len(album.pages) :
          first_cell' = << [page |-> i, found |-> get_first_cell_with_image(album.pages[i])] >>
    /\ pdf_pc' = "probed"
    /\ UNCHANGED <<album, interior_pages, walkVars, outVars, imgVars,
                   cropVars, spineVars, coverVars>>

NextPdf ==
    \/ GeneratePdfStart
    \/ BeginPage
    \/ BeginColumn \/ RenderColumnCell \/ FinishColumnCell \/ EndColumn \/ ColumnsDone
    \/ BeginRow \/ RenderRowCell \/ FinishRowCell \/ EndRow \/ RowsDone
    \/ EndPage
    \/ SavePdf
    \/ CallGetFirstCellWithImage

SpecPdf == InitPdf /\ [][NextPdf]_vars

----------------------------------------------------------------------------
(* Properties of generate_pdf                                              *)

IsDraw(o) == o.op = "drawImage"
IsShowPage(o) == o.op = "showPage"
IsSave(o) == o.op = "save"

DrawIndices == { i \in 1..Len(canvas) : IsDraw(canvas[i]) }

PdfFinished == pdf_pc \in {"done", "probed"}

\* the page of the album a draw command was issued for
PageOfDraw(o) == album.pages[o.src.page + 2]

CellAt(page, src) ==
    IF src.walk = "columns"
    THEN page.columns[src.line + 1].cells[src.cell + 1]
    ELSE page.rows[src.line + 1].cells[src.cell + 1]

RECURSIVE SumWidths(_, _)
SumWidths(cells, k) ==
    IF k = 0 THEN 0 ELSE Get(cells[k], "width", UI_PAGE_WIDTH) + SumWidths(cells, k - 1)

RECURSIVE SumCellHeights(_, _)
SumCellHeights(cells, k) ==
    IF k = 0 THEN 0 ELSE Get(cells[k], "height", UI_PAGE_HEIGHT) + SumCellHeights(cells, k - 1)

RECURSIVE SumRowHeights(_, _)
SumRowHeights(rows, k) == IF k = 0 THEN 0 ELSE rows[k].height + SumRowHeights(rows, k - 1)

RECURSIVE SumColumnWidths(_, _)
SumColumnWidths(cols, k) == IF k = 0 THEN 0 ELSE cols[k].width + SumColumnWidths(cols, k - 1)

\* sum_ui UI pixels and k gutters, in mm
Offset(sum_ui, k) == RAdd(RMul(R(sum_ui), SCALE_FACTOR), RMul(R(k), PRINT_GUTTER))

Points(len_mm) == RMul(len_mm, mm)

\* placement of the cell at (line, cell) of a page from the declared sizes
\* alone: margin, the extents of the preceding cells and one gutter between
\* neighbours; y measured from the bottom of the page
ExpectedRect(page, src) ==
    IF src.walk = "rows"
    THEN LET rows == page.rows
             row  == rows[src.line + 1]
             w_mm == RMul(R(Get(row.cells[src.cell + 1], "width", UI_PAGE_WIDTH)), SCALE_FACTOR)
             h_mm == RMul(R(row.height), SCALE_FACTOR)
             left == Offset(SumWidths(row.cells, src.cell), src.cell)
             top  == Offset(SumRowHeights(rows, src.line), src.line)
         IN  [x |-> Points(RAdd(R(PRINT_MARGIN), left)),
              y |-> Points(RSub(RSub(R(PRINT_PAGE_HEIGHT - PRINT_MARGIN), top), h_mm)),
              width |-> Points(w_mm), height |-> Points(h_mm)]
    ELSE LET cols == page.columns
             col  == cols[src.line + 1]
             w_mm == RMul(R(col.width), SCALE_FACTOR)
             h_mm == RMul(R(Get(col.cells[src.cell + 1], "height", UI_PAGE_HEIGHT)), SCALE_FACTOR)
             left == Offset(SumColumnWidths(cols, src.line), src.line)
             top  == Offset(SumCellHeights(col.cells, src.cell), src.cell)
         IN  [x |-> Points(RAdd(R(PRINT_MARGIN), left)),
              y |-> Points(RSub(RSub(R(PRINT_PAGE_HEIGHT - PRINT_MARGIN), top), h_mm)),
              width |-> Points(w_mm), height |-> Points(h_mm)]

RectOf(o) == [x |-> o.x, y |-> o.y, width |-> o.width, height |-> o.height]

\* the cell positions generate_pdf visits on a page
Positions(page) ==
    IF Populated(page, "columns")
    THEN UNION { { [walk |-> "columns", line |-> l, cell |-> c] :
                     c \in 0..(Len(page.columns[l + 1].cells) - 1) } :
                 l \in 0..(Len(page.columns) - 1) }
    ELSE UNION { { [walk |-> "rows", line |-> l, cell |-> c] :
                     c \in 0..(Len(RowsOf(page)[l + 1].cells) - 1) } :
                 l \in 0..(Len(RowsOf(page)) - 1) }

OnDisk(cell) == HasPath(cell) /\ cell.path \in DOMAIN Disk
Missing(cell) == HasPath(cell) /\ cell.path \notin DOMAIN Disk

\* positions of the interior pages (album pages 2..n-1), tagged with the page
InteriorPositions ==
    UNION { { [walk |-> pos.walk, page |-> k, line |-> pos.line, cell |-> pos.cell] :
                pos \in Positions(album.pages[k + 2]) } :
            k \in 0..(Len(album.pages) - 3) }

Count(seq, Test(_)) == Len(SelectSeq(seq, Test))

IsNotFound(m) == m.msg = "Warning: Image not found"

\* one row of declared height UI_PAGE_HEIGHT with one cell of declared width
\* UI_PAGE_WIDTH, and no columns
IsFullCellPage(page) ==
    /\ ~Populated(page, "columns")
    /\ HasKey(page, "rows") /\ Len(page.rows) = 1
    /\ page.rows[1].height = UI_PAGE_HEIGHT
    /\ Len(page.rows[1].cells) = 1
    /\ HasKey(page.rows[1].cells[1], "width")
    /\ page.rows[1].cells[1].width = UI_PAGE_WIDTH

\* C3 (as claimed): the draw command of a full-width, full-height single cell
\* is the printable area: x = y = PRINT_MARGIN, width = PRINT_PAGE_WIDTH -
\* 2*PRINT_MARGIN, height = PRINT_PAGE_HEIGHT - 2*PRINT_MARGIN.
C3_FullCellFillsPrintableArea ==
    \A i \in DrawIndices :
        IsFullCellPage(PageOfDraw(canvas[i])) =>
            RectOf(canvas[i]) =
                [x |-> Points(R(PRINT_MARGIN)), y |-> Points(R(PRINT_MARGIN)),
                 width |-> Points(R(PRINT_PAGE_WIDTH - 2 * PRINT_MARGIN)),
                 height |-> Points(R(PRINT_PAGE_HEIGHT - 2 * PRINT_MARGIN))]

BothPopulated(page) == Populated(page, "rows") /\ Populated(page, "columns")

FirstWithPath(cells, found) ==
    \E i \in 1..Len(cells) :
        /\ HasPath(cells[i]) /\ found = cells[i]
        /\ \A j \in 1..(i - 1) : ~HasPath(cells[j])

\* get_first_cell_with_image on a page with rows and columns: the first row
\* cell with an image if there is one, else the first such column cell
ProbePrefersRows ==
    \A i \in 1..Len(first_cell) :
        LET page == album.pages[first_cell[i].page]
            found == first_cell[i].found
        IN  BothPopulated(page) =>
                IF \E k \in 1..Len(CellsOf(page.rows)) : HasPath(CellsOf(page.rows)[k])
                THEN found # <<>> /\ FirstWithPath(CellsOf(page.rows), found[1])
                ELSE IF \E k \in 1..Len(CellsOf(page.columns)) : HasPath(CellsOf(page.columns)[k])
                THEN found # <<>> /\ FirstWithPath(CellsOf(page.columns), found[1])
                ELSE found = <<>>

\* C4 (as claimed): on a page with rows and columns both populated,
\* generate_pdf walks the rows (every draw command comes from a row cell) and
\* get_first_cell_with_image returns a row cell before any column cell.
C4_RowsTakePrecedence ==
    /\ \A i \in DrawIndices :
          BothPopulated(PageOfDraw(canvas[i])) => canvas[i].src.walk = "rows"
    /\ ProbePrefersRows

\* C4 (amended): on such a page generate_pdf walks the columns: every draw
\* command comes from a column cell, and once the run is over every column
\* cell with an image on disk has been drawn; get_first_cell_with_image
\* returns a row cell with an image before any column cell.
C4_ColumnsWalkedRowsProbedFirst ==
    /\ \A i \in DrawIndices :
          LET o == canvas[i]
          IN  BothPopulated(PageOfDraw(o)) =>
                /\ o.src.walk = "columns"
                /\ o.path = CellAt(PageOfDraw(o), o.src).path
    /\ PdfFinished =>
          \A src \in InteriorPositions :
              (BothPopulated(album.pages[src.page + 2])
                    /\ OnDisk(CellAt(album.pages[src.page + 2], src))) =>
                  /\ src.walk = "columns"
                  /\ \E i \in DrawIndices : canvas[i].src = src
    /\ ProbePrefersRows

\* a page with both collections has been drawn from its columns and probed
C4_Witness ==
    /\ pdf_pc = "probed"
    /\ album.pages[first_cell[1].page] = BothPage
    /\ first_cell[1].found = << BothPage.rows[1].cells[1] >>
    /\ \E i \in DrawIndices :
          PageOfDraw(canvas[i]) = BothPage /\ canvas[i].path = "small.jpg"

\* C6: a cell whose file is missing gets a warning and no draw command; every
\* draw command sits at the rect given by the declared sizes alone, so the
\* cells after a missing one (same page and later pages) are where they would
\* be had the file existed, and every cell with a file on disk is drawn.
C6_MissingImageSkipsOnlyThatCell ==
    /\ \A i \in DrawIndices :
          LET o == canvas[i]
          IN  /\ o.path \in DOMAIN Disk
              /\ o.path = CellAt(PageOfDraw(o), o.src).path
              /\ RectOf(o) = ExpectedRect(PageOfDraw(o), o.src)
    /\ PdfFinished =>
          /\ \A src \in InteriorPositions :
                LET cell == CellAt(album.pages[src.page + 2], src)
                IN  /\ OnDisk(cell) => \E i \in DrawIndices : canvas[i].src = src
                    /\ Missing(cell) =>
                          /\ \A i \in DrawIndices : canvas[i].src # src
                          /\ \E k \in 1..Len(printed) :
                                IsNotFound(printed[k]) /\ printed[k].path = cell.path
          /\ Count(printed, IsNotFound) =
                Cardinality({ src \in InteriorPositions :
                                Missing(CellAt(album.pages[src.page + 2], src)) })

\* a missing first cell, then a drawn cell on the same page and one on a later page
C6_Witness ==
    /\ PdfFinished
    /\ Len(album.pages) >= 4
    /\ album.pages[2] = GonePage
    /\ Count(printed, IsNotFound) >= 1
    /\ \E i, j \in DrawIndices :
          /\ canvas[i].src = [walk |-> "rows", page |-> 0, line |-> 0, cell |-> 1]
          /\ canvas[j].src.page = 1

Min(a, b) == IF a < b THEN a ELSE b

\* gutters passed after idx of count items: one per item, none after the last
GuttersPassed(idx, count) == IF idx = 0 THEN 0 ELSE Min(idx, count - 1)

\* C9: on a row-walked page the k-th cell of a row is drawn at
\* x = PRINT_MARGIN + (widths of the k cells before it) * SCALE_FACTOR +
\* k * PRINT_GUTTER, and the r-th row starts (row heights before it) *
\* SCALE_FACTOR + r * PRINT_GUTTER below the top margin; the running offsets
\* carry no gutter after the last cell or row.
C9_RowWalkOffsets ==
    /\ \A i \in DrawIndices :
          LET o == canvas[i]
              rows == RowsOf(PageOfDraw(o))
              row == rows[o.src.line + 1]
              k == o.src.cell
              r == o.src.line
              h_mm == RMul(R(row.height), SCALE_FACTOR)
          IN  o.src.walk = "rows" =>
                /\ o.x = Points(RAdd(R(PRINT_MARGIN),
                                     RAdd(RMul(R(SumWidths(row.cells, k)), SCALE_FACTOR),
                                          RMul(R(k), PRINT_GUTTER))))
                /\ o.y = Points(RSub(RSub(R(PRINT_PAGE_HEIGHT - PRINT_MARGIN),
                                          RAdd(RMul(R(SumRowHeights(rows, r)), SCALE_FACTOR),
                                               RMul(R(r), PRINT_GUTTER))),
                                     h_mm))
    /\ pdf_pc = "row_cell" =>
          LET cells == RowsOf(CurrentPage)[row_idx + 1].cells
          IN  current_x = Offset(SumWidths(cells, cell_idx),
                                 GuttersPassed(cell_idx, Len(cells)))
    /\ pdf_pc \in {"row", "row_cell"} =>
          current_y_from_top = Offset(SumRowHeights(RowsOf(CurrentPage), row_idx),
                                      GuttersPassed(row_idx, Len(RowsOf(CurrentPage))))

\* the cells of widths 300 and 400: the second one at margin + 300*scale + gutter
C9_Witness ==
    \E i \in DrawIndices :
        /\ PageOfDraw(canvas[i]) = TwoCellPage
        /\ canvas[i].src.cell = 1
        /\ canvas[i].x = Points(RAdd(RAdd(R(PRINT_MARGIN), RMul(R(300), SCALE_FACTOR)),
                                     PRINT_GUTTER))

\* C16: on a column-walked page the c-th column is drawn at x = PRINT_MARGIN
\* + (widths of the c columns before it) * SCALE_FACTOR + c * PRINT_GUTTER
\* and every cell of it is as wide as the column; within a column the
\* vertical offset starts at 0 and the k-th cell lies (heights of the k cells
\* above it) * SCALE_FACTOR + k * PRINT_GUTTER below the top margin, at
\* y = PRINT_PAGE_HEIGHT - PRINT_MARGIN - running top offset - cell height;
\* the running offsets carry no gutter after the last cell or column.
C16_ColumnWalkOffsets ==
    /\ \A i \in DrawIndices :
          LET o == canvas[i]
              cols == PageOfDraw(o).columns
              col == cols[o.src.line + 1]
              c == o.src.line
              k == o.src.cell
              h_mm == RMul(R(Get(col.cells[k + 1], "height", UI_PAGE_HEIGHT)), SCALE_FACTOR)
          IN  o.src.walk = "columns" =>
                /\ o.x = Points(RAdd(R(PRINT_MARGIN),
                                     RAdd(RMul(R(SumColumnWidths(cols, c)), SCALE_FACTOR),
                                          RMul(R(c), PRINT_GUTTER))))
                /\ o.width = Points(RMul(R(col.width), SCALE_FACTOR))
                /\ o.height = Points(h_mm)
                /\ o.y = Points(RSub(RSub(R(PRINT_PAGE_HEIGHT - PRINT_MARGIN),
                                          RAdd(RMul(R(SumCellHeights(col.cells, k)), SCALE_FACTOR),
                                               RMul(R(k), PRINT_GUTTER))),
                                     h_mm))
    /\ pdf_pc \in {"col_cell", "col_cell_drawn"} =>
          LET cells == CurrentPage.columns[col_idx + 1].cells
          IN  /\ current_y_from_top = Offset(SumCellHeights(cells, cell_idx),
                                             GuttersPassed(cell_idx, Len(cells)))
              /\ cell_idx = 0 => current_y_from_top = R(0)
    /\ (pdf_pc = "col_cell_drawn" /\ cell_images # <<>>) =>
          LET o == canvas[Len(canvas)]
          IN  o.y = Points(RSub(RSub(RSub(R(PRINT_PAGE_HEIGHT), R(PRINT_MARGIN)),
                                     current_y_from_top),
                                RDiv(o.height, mm)))
    /\ pdf_pc \in {"col", "col_cell", "col_cell_drawn"} =>
          current_x = Offset(SumColumnWidths(CurrentPage.columns, col_idx),
                             GuttersPassed(col_idx, Len(CurrentPage.columns)))

\* the second cell of the second column, below a cell whose image is missing
C16_Witness ==
    \E i \in DrawIndices :
        /\ PageOfDraw(canvas[i]) = ColumnPage
        /\ canvas[i].src = [walk |-> "columns", page |-> canvas[i].src.page,
                            line |-> 1, cell |-> 1]
        /\ canvas[i].x = Points(RAdd(RAdd(R(PRINT_MARGIN), RMul(R(361), SCALE_FACTOR)),
                                     PRINT_GUTTER))
        /\ canvas[i].y = Points(RSub(R(PRINT_PAGE_HEIGHT - PRINT_MARGIN),
                                     RAdd(RMul(R(295 + 296), SCALE_FACTOR), PRINT_GUTTER)))

ShowPagesBefore(i) == Count(SubSeq(canvas, 1, i - 1), IsShowPage)

\* C10: an album of n <= 2 pages issues nothing on a canvas; for n > 2 the
\* finished run has drawn exactly the cells of pages 2..n-1, page by page in
\* album order, with n-3 page breaks (one after each page but the last) and
\* one save at the very end.
C10_InteriorSequencing ==
    LET n == Len(album.pages)
    IN  /\ n <= 2 => canvas = <<>>
        /\ \A i \in DrawIndices :
              LET o == canvas[i]
              IN  /\ o.src.page \in 0..(n - 3)
                  /\ o.src.page = ShowPagesBefore(i)
                  /\ o.src \in InteriorPositions
                  /\ o.path = CellAt(album.pages[o.src.page + 2], o.src).path
        /\ (PdfFinished /\ n > 2) =>
              /\ canvas[1].op = "Canvas"
              /\ IsSave(canvas[Len(canvas)])
              /\ Count(canvas, IsSave) = 1
              /\ Count(canvas, IsShowPage) = n - 3
              /\ Cardinality(DrawIndices) =
                    Cardinality({ src \in InteriorPositions :
                                    OnDisk(CellAt(album.pages[src.page + 2], src)) })

\* a five-page album: three interior pages drawn, two page breaks, saved
C10_Witness ==
    /\ PdfFinished
    /\ Len(album.pages) = 5
    /\ Count(canvas, IsShowPage) = 2
    /\ \E i, j \in DrawIndices : canvas[i].src.page = 0 /\ canvas[j].src.page = 2
    /\ IsSave(canvas[Len(canvas)])

IsLowDpi(m) == m.msg = "Low DPI warning"

IsSummary(m) == m.msg = "Warning: image(s) have DPI below minimum"

\* the cell at an interior position is rendered below MIN_DPI_WARNING
LowDpiAt(src) ==
    \E i \in DrawIndices :
        /\ canvas[i].src = src
        /\ RLt(calculate_effective_dpi(canvas[i].crop.w,
                                       RDiv(canvas[i].width, mm)),
               R(MIN_DPI_WARNING))

\* C11 (as claimed): at the end of a generate_pdf run the collection reported
\* in the summary (low_dpi_warnings) holds an entry for every low-DPI image
\* and for every missing image file, and neither condition has stopped the
\* run: every later cell with a file on disk is drawn and the PDF is saved.
C11_RecoverableConditionsSummarised ==
    (PdfFinished /\ Len(album.pages) > 2) =>
        /\ \A src \in InteriorPositions :
              LET cell == CellAt(album.pages[src.page + 2], src)
              IN  /\ LowDpiAt(src) =>
                        \E k \in 1..Len(low_dpi_warnings) :
                            low_dpi_warnings[k].path = cell.path
                  /\ Missing(cell) =>
                        \E k \in 1..Len(low_dpi_warnings) :
                            low_dpi_warnings[k].path = cell.path
                  /\ OnDisk(cell) => \E i \in DrawIndices : canvas[i].src = src
        /\ IsSave(canvas[Len(canvas)])

----------------------------------------------------------------------------
(* generate_cover.py: constants, validation, generate_cover                *)

TOTAL_HEIGHT     == 335
BASE_TOTAL_WIDTH == 758
BASE_SPINE_WIDTH == 6

\* variant of the total width that ignores the spine delta
calculate_total_width_base_only(spine_width) == BASE_TOTAL_WIDTH

calculate_total_width(spine_width) == BASE_TOTAL_WIDTH + (spine_width - BASE_SPINE_WIDTH)

count_cells_in_page(page) ==
    (IF Populated(page, "rows") THEN Len(CellsOf(page.rows)) ELSE 0)
    + (IF Populated(page, "columns") THEN Len(CellsOf(page.columns)) ELSE 0)

\* variant of the validation that only rejects pages without any cell
validate_single_cell_page_at_least_one(page, page_name) ==
    LET cell_count == count_cells_in_page(page)
    IN  IF cell_count < 1
        THEN [exit |-> TRUE,
              out |-> << [msg |-> "Error: must have exactly 1 cell", page |-> page_name,
                          count |-> cell_count] >>]
        ELSE [exit |-> FALSE, out |-> <<>>]

\* exit: whether sys.exit(1) is called; out: what is printed before it
validate_single_cell_page(page, page_name) ==
    LET cell_count == count_cells_in_page(page)
    IN  IF cell_count # 1
        THEN [exit |-> TRUE,
              out |-> << [msg |-> "Error: must have exactly 1 cell", page |-> page_name,
                          count |-> cell_count] >>]
        ELSE [exit |-> FALSE, out |-> <<>>]

MaxCoverPages == 74   \* cover albums have 0..MaxCoverPages pages

OneCellGonePage ==
    [layout |-> "1",
     rows |-> << [height |-> 598, cells |-> << [width |-> 730, path |-> "gone.jpg"] >>] >>]

OneCellNoImagePage ==
    [layout |-> "1", rows |-> << [height |-> 598, cells |-> << [width |-> 730] >>] >>]

\* an empty row, and one column holding the only cell
OneColumnCellPage ==
    [layout |-> "1",
     rows |-> << [height |-> 598, cells |-> << >>] >>,
     columns |-> << [width |-> 730,
                     cells |-> << [path |-> "a.jpg", zoom |-> Rat(3, 2),
                                   focalPoint |-> [x |-> Rat(1, 1), y |-> Rat(0, 1)]] >>] >>]

\* pages tried as first and last page of the album
CoverPagePool ==
    { CoverPage, OneCellGonePage, OneCellNoImagePage, OneColumnCellPage, TwoCellPage,
      BothPage, BlankPage }

\* n pages: the given first and last page, blank pages between
CoverAlbumPages(n, first, last) ==
    [i \in 1..n |-> IF i = 1 THEN first ELSE IF i = n THEN last ELSE BlankPage]

CoverAlbums ==
    { [photobook_version |-> "1", pages |-> ps] :
        ps \in { <<>> } \cup { <<p>> : p \in CoverPagePool }
               \cup { CoverAlbumPages(n, f, l) :
                        n \in 2..MaxCoverPages, f \in CoverPagePool, l \in CoverPagePool } }

\* album sizes that give the first paper-page count of each row of
\* SPINE_TABLE, and the first one above the table
LongAlbumPageCounts ==
    { 2 * SPINE_TABLE[i][1] + 2 : i \in 1..Len(SPINE_TABLE) }
    \cup { 2 * (SPINE_TABLE[Len(SPINE_TABLE)][2] + 1) + 2 }

\* albums of these sizes with usable covers
LongCoverAlbums ==
    { [photobook_version |-> "1", pages |-> CoverAlbumPages(n, CoverPage, OneColumnCellPage)] :
        n \in LongAlbumPageCounts }

InitCover ==
    /\ cover_pc = "start"
    /\ cover_album \in CoverAlbums \cup LongCoverAlbums
    /\ cover_locals = NoLocals
    /\ cover_canvas = <<>>
    /\ cover_printed = <<>>
    /\ exit_code = 0
    /\ cover_open_images = {}
    /\ CropIdle
    /\ SpineIdle
    /\ PdfIdle

\* the process ends with exit status 1: sys.exit(1) or an uncaught exception
Abort(out) ==
    /\ cover_printed' = cover_printed \o out
    /\ exit_code' = 1
    /\ cover_pc' = "exit"

cover_load_image(image_path, owner) ==
    [owner |-> owner, made_by |-> "load_image", mode |-> Disk[image_path].mode,
     size |-> <<Disk[image_path].w, Disk[image_path].h>>]

\* process one cover image and draw it at x (the code of the back and of the
\* front panel, which differ in the cell, the width and x): the draw command
\* and the three image locals, open at this point
DrawCoverImage(cell, image_width, x, owner) ==
    LET img == cover_load_image(cell.path, owner)
        focal == Get(cell, "focalPoint", [x |-> Rat(1, 2), y |-> Rat(1, 2)])
        zoom == Get(cell, "zoom", R(1))
        crop == cover_calculate_crop(R(img.size[1]), R(img.size[2]), image_width,
                                     R(TOTAL_HEIGHT), focal.x, focal.y, zoom)
        processed == cover_crop_and_resize_image(img, crop.x, crop.y, crop.w, crop.h,
                                                 image_width, R(TOTAL_HEIGHT), OUTPUT_DPI)
        srgb == cover_convert_to_srgb(processed)
    IN  [op |-> [op |-> "drawImage", path |-> cell.path, x |-> x, y |-> R(0),
                 width |-> RMul(image_width, mm), height |-> RMul(R(TOTAL_HEIGHT), mm),
                 crop |-> crop, panel |-> owner],
         opened |-> <<img, processed, srgb>>]

\* generate_cover from its entry to the creation of the canvas
GenerateCoverSetup ==
    /\ cover_pc = "start"
    /\ LET pages == cover_album.pages
           album_page_count == Len(pages)
           paper_pages == calculate_paper_pages(album_page_count)
           spine == get_spine_width(paper_pages)
           spine_width == spine.value
           total_width == calculate_total_width(spine_width)
           back_image_width == Rat(total_width - spine_width, 2)
           front_image_width == Rat(total_width + spine_width, 2)
           warned == IF spine.warned
                     THEN << [msg |-> "Warning: paper pages out of range",
                              paper_pages |-> paper_pages] >>
                     ELSE <<>>
       IN  IF spine.kind = "raise"
           THEN /\ Abort(<< [msg |-> "ValueError: Cannot determine spine width"] >>)
                /\ UNCHANGED <<cover_locals, cover_canvas>>
           ELSE IF album_page_count = 0
           THEN /\ Abort(warned \o << [msg |-> "IndexError: list index out of range"] >>)
                /\ UNCHANGED <<cover_locals, cover_canvas>>
           ELSE
             LET front_page == pages[1]
                 back_page == pages[album_page_count]
                 front_ok == validate_single_cell_page(front_page, "Front cover page (first page)")
                 back_ok == validate_single_cell_page(back_page, "Back cover page (last page)")
                 front_cell == get_first_cell_with_image(front_page)
                 back_cell == get_first_cell_with_image(back_page)
             IN  IF front_ok.exit
                 THEN /\ Abort(warned \o front_ok.out)
                      /\ UNCHANGED <<cover_locals, cover_canvas>>
                 ELSE IF back_ok.exit
                 THEN /\ Abort(warned \o back_ok.out)
                      /\ UNCHANGED <<cover_locals, cover_canvas>>
                 ELSE IF front_cell = <<>>
                 THEN /\ Abort(warned \o << [msg |-> "Error: No image found on front cover page"] >>)
                      /\ UNCHANGED <<cover_locals, cover_canvas>>
                 ELSE IF back_cell = <<>>
                 THEN /\ Abort(warned \o << [msg |-> "Error: No image found on back cover page"] >>)
                      /\ UNCHANGED <<cover_locals, cover_canvas>>
                 ELSE /\ cover_locals' =
                            [paper_pages |-> paper_pages, spine_width |-> spine_width,
                             total_width |-> total_width,
                             back_image_width |-> back_image_width,
                             front_image_width |-> front_image_width,
                             front_cell |-> front_cell, back_cell |-> back_cell,
                             images |-> <<>>]
                      /\ cover_canvas' =
                            << [op |-> "Canvas",
                                pagesize |-> <<RMul(R(total_width), mm),
                                               RMul(R(TOTAL_HEIGHT), mm)>>] >>
                      /\ cover_printed' = cover_printed \o warned
                      /\ cover_pc' = "back"
                      /\ UNCHANGED exit_code
    /\ UNCHANGED <<cover_album, cover_open_images, cropVars, spineVars, pdfVars>>

\* "Process and draw back cover image", up to the draw command
DrawBackCover ==
    /\ cover_pc = "back"
    /\ LET back_cell == cover_locals.back_cell[1]
       IN  IF back_cell.path \notin DOMAIN Disk
           THEN /\ Abort(<< [msg |-> "Error: Back cover image not found",
                             path |-> back_cell.path] >>)
                /\ UNCHANGED <<cover_canvas, cover_locals, cover_open_images>>
           ELSE \E done \in { DrawCoverImage(back_cell, cover_locals.back_image_width,
                                                R(0), "back") } :
                    /\ cover_canvas' = Append(cover_canvas, done.op)
                    /\ cover_open_images' = cover_open_images \cup Buffers(done.opened)
                    /\ cover_locals' = [cover_locals EXCEPT !.images = done.opened]
                    /\ cover_pc' = "back_drawn"
                    /\ UNCHANGED <<cover_printed, exit_code>>
    /\ UNCHANGED <<cover_album, cropVars, spineVars, pdfVars>>

\* back_img.close(); back_processed.close(); back_srgb.close()
CloseBackCover ==
    /\ cover_pc = "back_drawn"
    /\ cover_open_images' = cover_close_images(cover_open_images, cover_locals.images[1],
                                               cover_locals.images[2], cover_locals.images[3])
    /\ cover_pc' = "front"
    /\ UNCHANGED <<cover_album, cover_locals, cover_canvas, cover_printed, exit_code,
                   cropVars, spineVars, pdfVars>>

\* "Process and draw front cover image", up to the draw command
DrawFrontCover ==
    /\ cover_pc = "front"
    /\ LET front_cell == cover_locals.front_cell[1]
           spine_x == cover_locals.back_image_width
       IN  IF front_cell.path \notin DOMAIN Disk
           THEN /\ Abort(<< [msg |-> "Error: Front cover image not found",
                             path |-> front_cell.path] >>)
                /\ UNCHANGED <<cover_canvas, cover_locals, cover_open_images>>
           ELSE \E done \in { DrawCoverImage(front_cell, cover_locals.front_image_width,
                                                RMul(spine_x, mm), "front") } :
                    /\ cover_canvas' = Append(cover_canvas, done.op)
                    /\ cover_open_images' = cover_open_images \cup Buffers(done.opened)
                    /\ cover_locals' = [cover_locals EXCEPT !.images = done.opened]
                    /\ cover_pc' = "front_drawn"
                    /\ UNCHANGED <<cover_printed, exit_code>>
    /\ UNCHANGED <<cover_album, cropVars, spineVars, pdfVars>>

\* front_img.close(); front_processed.close(); front_srgb.close()
CloseFrontCover ==
    /\ cover_pc = "front_drawn"
    /\ cover_open_images' = cover_close_images(cover_open_images, cover_locals.images[1],
                                               cover_locals.images[2], cover_locals.images[3])
    /\ cover_pc' = "text"
    /\ UNCHANGED <<cover_album, cover_locals, cover_canvas, cover_printed, exit_code,
                   cropVars, spineVars, pdfVars>>

\* "Draw year text on spine" and c.save()
DrawSpineTextAndSave ==
    /\ cover_pc = "text"
    /\ LET spine_x == cover_locals.back_image_width
           spine_center_x == RAdd(spine_x, Rat(cover_locals.spine_width, 2))
           spine_center_y == Rat(TOTAL_HEIGHT, 2)
       IN  cover_canvas' =
              cover_canvas \o
              << [op |-> "drawString", rotate |-> 90,
                  translate |-> <<RMul(spine_center_x, mm), RMul(spine_center_y, mm)>>],
                 [op |-> "save"] >>
    /\ cover_pc' = "exit"
    /\ UNCHANGED <<cover_album, cover_locals, cover_printed, exit_code, cover_open_images,
                   cropVars, spineVars, pdfVars>>

NextCover ==
    \/ GenerateCoverSetup
    \/ DrawBackCover \/ CloseBackCover
    \/ DrawFrontCover \/ CloseFrontCover
    \/ DrawSpineTextAndSave

SpecCover == InitCover /\ [][NextCover]_vars

----------------------------------------------------------------------------
(* Properties of generate_cover                                            *)

CoverSaved == \E i \in 1..Len(cover_canvas) : IsSave(cover_canvas[i])

\* every cell of a page, rows and columns alike
AllCells(page) == CellsOf(Get(page, "rows", <<>>)) \o CellsOf(Get(page, "columns", <<>>))

\* exactly one cell, carrying an image path
PassesValidation(page) == Len(AllCells(page)) = 1 /\ HasPath(AllCells(page)[1])

ImageFileExists(page) == AllCells(page)[1].path \in DOMAIN Disk

BothCoversUsable ==
    LET pages == cover_album.pages
    IN  /\ pages # <<>>
        /\ PassesValidation(pages[1]) /\ PassesValidation(pages[Len(pages)])
        /\ ImageFileExists(pages[1]) /\ ImageFileExists(pages[Len(pages)])

\* C5: the cover PDF is saved only if the first and the last page each hold
\* exactly one cell with an image path and both files exist; otherwise the
\* run ends with a non-zero exit status and without the save.
C5_CoverSavedOnlyIfValid ==
    /\ CoverSaved => (BothCoversUsable /\ exit_code = 0)
    /\ exit_code # 0 => ~CoverSaved
    /\ (cover_pc = "exit" /\ ~BothCoversUsable) => (exit_code # 0 /\ ~CoverSaved)

\* a front cover page with two image cells has ended the run
C5_Witness ==
    /\ cover_pc = "exit"
    /\ Len(cover_album.pages) >= 2
    /\ cover_album.pages[1] = TwoCellPage
    /\ cover_album.pages[Len(cover_album.pages)] = CoverPage
    /\ exit_code = 1
    /\ cover_canvas = <<>>

IsText(o) == o.op = "drawString"

\* C15: once generate_cover has created its canvas, for the spine width s it
\* obtained: total_width = 758 + (s - 6), back width = (total_width - s)/2,
\* front width = (total_width + s)/2; the back panel is drawn at x = 0 with
\* the back width and the front panel at x = back width with the front
\* width, so that the panels tile [0, total_width] and front - back = s; the
\* spine text is anchored at back width + s/2, inside [back width, back
\* width + s].
C15_CoverPanelGeometry ==
    cover_canvas # <<>> =>
        LET s == cover_locals.spine_width
            total == cover_locals.total_width
            back == cover_locals.back_image_width
            front == cover_locals.front_image_width
        IN  /\ s \in TableWidths
            /\ total = 758 + (s - 6)
            /\ back = Rat(total - s, 2)
            /\ front = Rat(total + s, 2)
            /\ RAdd(back, front) = R(total)
            /\ RSub(front, back) = R(s)
            /\ cover_canvas[1].pagesize[1] = Points(R(total))
            /\ \A i \in 1..Len(cover_canvas) :
                  LET o == cover_canvas[i]
                  IN  /\ (IsDraw(o) /\ o.panel = "back") =>
                            (o.x = R(0) /\ o.width = Points(back))
                      /\ (IsDraw(o) /\ o.panel = "front") =>
                            /\ o.x = Points(back) /\ o.width = Points(front)
                            /\ RAdd(o.x, o.width) = Points(R(total))
                      /\ IsText(o) =>
                            /\ o.translate[1] = Points(RAdd(back, Rat(s, 2)))
                            /\ RLe(Points(back), o.translate[1])
                            /\ RLe(o.translate[1], Points(RAdd(back, R(s))))
            /\ CoverSaved =>
                  /\ Count(cover_canvas, IsDraw) = 2
                  /\ Count(cover_canvas, IsText) = 1

\* the widest spine of the table: a 771mm spread, both panels and the text drawn
C15_Witness ==
    /\ CoverSaved
    /\ cover_locals.spine_width = 19
    /\ cover_locals.total_width = 771
    /\ \E i, j \in 1..Len(cover_canvas) :
          /\ IsDraw(cover_canvas[i]) /\ cover_canvas[i].panel = "back"
          /\ IsDraw(cover_canvas[j]) /\ cover_canvas[j].panel = "front"
          /\ cover_canvas[j].x = Points(R(376))

----------------------------------------------------------------------------
(* Image buffer lifetime, both programs                                    *)

\* a run of either program: generate_pdf on an album or generate_cover on one
InitRun == InitPdf \/ InitCover

NextRun == NextPdf \/ NextCover

SpecRun == InitRun /\ [][NextRun]_vars

\* between a draw command of render_cell and render_cell's return
CellDrawn == pdf_pc \in {"row_cell_drawn", "col_cell_drawn"}

\* the cell generate_pdf is at
CurrentSrc ==
    [walk |-> IF pdf_pc = "col_cell_drawn" THEN "columns" ELSE "rows",
     page |-> page_idx,
     line |-> IF pdf_pc = "col_cell_drawn" THEN col_idx ELSE row_idx,
     cell |-> cell_idx]

PanelDrawn == cover_pc \in {"back_drawn", "front_drawn"}

CurrentPanel == IF cover_pc = "back_drawn" THEN "back" ELSE "front"

\* C12: in generate_pdf and in generate_cover the image buffers opened for a
\* cell (loaded, resampled, sRGB-converted) are all still open when the
\* cell's draw command has been issued and are closed before anything else
\* happens: outside the step between a draw command and the close calls no
\* buffer is open, the open buffers belong to one cell at most (the one just
\* drawn), and none is open once the PDF is saved.
C12_ImageBuffersClosed ==
    /\ \A b1, b2 \in open_images : b1.owner = b2.owner
    /\ ~CellDrawn => (open_images = {} /\ cell_images = <<>>)
    /\ (CellDrawn /\ cell_images # <<>>) =>
          /\ open_images = Buffers(cell_images)
          /\ \A b \in open_images : b.owner = CurrentSrc
          /\ IsDraw(canvas[Len(canvas)]) /\ canvas[Len(canvas)].src = CurrentSrc
    /\ (CellDrawn /\ cell_images = <<>>) => open_images = {}
    /\ (\E i \in 1..Len(canvas) : IsSave(canvas[i])) => open_images = {}
    /\ \A b1, b2 \in cover_open_images : b1.owner = b2.owner
    /\ ~PanelDrawn => cover_open_images = {}
    /\ PanelDrawn =>
          /\ cover_open_images = Buffers(cover_locals.images)
          /\ cover_open_images # {}
          /\ \A b \in cover_open_images : b.owner = CurrentPanel
          /\ IsDraw(cover_canvas[Len(cover_canvas)])
          /\ cover_canvas[Len(cover_canvas)].panel = CurrentPanel
    /\ CoverSaved => cover_open_images = {}

\* the second cell of a row has just been drawn: its buffers are open, those
\* of the first cell are closed
C12_Witness ==
    /\ pdf_pc = "row_cell_drawn"
    /\ cell_idx = 1
    /\ Cardinality(DrawIndices) = 2
    /\ open_images # {}
    /\ \A b \in open_images : b.owner.cell = 1

=============================================================================
